---- MODULE Spec2Model ----
(***************************************************************************)
(* A model of the two example programs of the repository:                  *)
(*   - fish (c/ch6/fish.c): 2D Poisson problem, main and its helpers;       *)
(*   - ice  (unnamed/part_000): 2D ice-sheet thickness problem: main,       *)
(*     option processing, initial thickness, and the residual call-backs.   *)
(*                                                                         *)
(* Real numbers are modelled by integers.  Units are chosen so that the     *)
(* quantities the code computes stay integers of moderate size: lengths are *)
(* counted in units of 300 km (so L = 1800e3 m is 6) and time in half years *)
(* (so secpera = 31556926 s is 2).  Inputs (thickness, bed, options) are    *)
(* drawn from small sets of values for which every intermediate result of   *)
(* the code is an integer.                                                  *)
(***************************************************************************)
EXTENDS Integers, Sequences, FiniteSets, TLC

VARIABLES
    prog,          \* which program runs: "ice" or "fish"
    pc,            \* main: index of the next call in the program's call list
    ret,           \* main: <<>> while running, <<code>> once main has returned
    opts,          \* the command line: option values, each <<>> (unset) or <<v>>
    user,          \* the context: AppCtx (ice) or PoissonCtx and locals (fish)
    cmb,           \* ice: the CMBModel, a table elevation -> mass balance
    vecH,          \* ice: the thickness vector H of main, by node <<j,k>>
    uexact,        \* fish: the vector uexact filled by formExact
    appRet,        \* ice: <<>> or <<status returned by SetFromOptionsAppCtx>>
    failed,        \* index of the first call that returned a nonzero status
    ranAfterFail,  \* indices of the calls made after some call had failed
    executed,      \* indices of the calls main has made so far
    branches,      \* ice: the branches getdelta has taken: "power", "gamma"
    \* --- the call-backs of the ice program, on a grid split among processes
    ctx,           \* the AppCtx handed to the call-backs
    cuts,          \* where the grid is cut into process patches: <<cx, cy>>
    tsH,           \* the global thickness, by node <<j,k>>
    tsHdot,        \* the global time derivative of the thickness
    tsF,           \* the global residual vector filled by FormIFunctionLocal
    tsG,           \* the global vector filled by FormRHSFunctionLocal
    recI,          \* per patch: what its call of FormIFunctionLocal did
    recR,          \* per patch: what its call of FormRHSFunctionLocal did
    \* --- single evaluations of the point-wise formulas
    fin,           \* the arguments of the evaluation
    fout           \* its results

mainVars == <<prog, pc, ret, opts, user, cmb, vecH, uexact, appRet, failed,
              ranAfterFail, executed, branches>>

fluxVars == <<ctx, cuts, tsH, tsHdot, tsF, tsG, recI, recR>>

pointVars == <<fin, fout>>

vars == <<mainVars, fluxVars, pointVars>>

---------------------------------------------------------------------------
(* Bounds of the model *)

\* toolkit calls return a status in 0 .. MaxRc (0 is success)
MaxRc == 1
\* values of -ice_n tried on the command line: 0 .. MaxN
MaxN == 3
\* values of -ice_initmagic tried on the command line: -MaxMagic .. MaxMagic
MaxMagic == 1
\* the climatic mass balance takes values in -MaxM .. MaxM
MaxM == 1
\* points and steps at which the exact solutions of fish are compared
MaxXY == 3
MaxStep == 2

---------------------------------------------------------------------------
(* Arithmetic helpers *)

RECURSIVE PetscPowInt(_, _)
\* PetscPowReal(b, e) for an exponent e that is a natural number
PetscPowInt(b, e) == IF e = 0 THEN 1 ELSE b * PetscPowInt(b, e - 1)

PetscAbsReal(x) == IF x < 0 THEN -x ELSE x

\* position of element x in sequence s (0 when absent)
IndexOf(s, x) == IF \E i \in 1..Len(s) : s[i] = x
                 THEN CHOOSE i \in 1..Len(s) : s[i] = x ELSE 0

Unset == << >>
IsSet(o) == Len(o) > 0
OptValues(S) == {Unset} \cup { <<v>> : v \in S }

---------------------------------------------------------------------------
(* fish.c: exact solutions and right-hand sides *)

\* exp(y) at the integer points the model uses: a positive, strictly
\* increasing stand-in; the code under study only multiplies by it
exp(y) == PetscPowInt(2, y)

u_exact_manupoly(x, y, z) == (x - x*x) * (y*y - y)

u_exact_manuexp(x, y, z) == - x * exp(y)

u_exact_zero(x, y, z) == 0

f_rhs_manupoly_uyy_sign(x, y, z) ==
    LET uxx == - 2 * (y*y - y)
        uyy == (x - x*x) * 2
    IN  - uxx + uyy

f_rhs_manupoly(x, y, z) ==
    LET uxx == - 2 * (y*y - y)
        uyy == (x - x*x) * 2
    IN  - uxx - uyy

f_rhs_manuexp(x, y, z) == x * exp(y)

f_rhs_zero(x, y, z) == 0

\* the tables of function pointers, by name
u_exact_ptr == <<"u_exact_manupoly", "u_exact_manuexp", "u_exact_zero">>

f_rhs_ptr == <<"f_rhs_manupoly", "f_rhs_manuexp", "f_rhs_zero">>

\* a call through a function pointer
CallPtr(fn, x, y, z) ==
    CASE fn = "u_exact_manupoly" -> u_exact_manupoly(x, y, z)
      [] fn = "u_exact_manuexp"  -> u_exact_manuexp(x, y, z)
      [] fn = "u_exact_zero"     -> u_exact_zero(x, y, z)
      [] fn = "f_rhs_manupoly"   -> f_rhs_manupoly(x, y, z)
      [] fn = "f_rhs_manuexp"    -> f_rhs_manuexp(x, y, z)
      [] fn = "f_rhs_zero"       -> f_rhs_zero(x, y, z)

\* the names of the problem types, in the order of the enum (the enum and
\* this list are declared in poissonfunctions.h)
PoissonProblemTypes == <<"manupoly", "manuexp", "zero">>

MANUEXP == IndexOf(PoissonProblemTypes, "manuexp") - 1

\* the grid DMDACreate2d makes when no refinement is asked for: 3 x 3 points
GridM == 3

FishNodes == (0 .. GridM - 1) \X (0 .. GridM - 1)

\* formExact on the single process patch: au[j][i] = u_exact(x,y,0)
formExact(Lx, Ly, u) ==
    LET hx == Lx \div (GridM - 1)
        hy == Ly \div (GridM - 1)
    IN  [ij \in FishNodes |-> CallPtr(u.u_exact, ij[1] * hx, ij[2] * hy, 0)]

---------------------------------------------------------------------------
(* ice: the context and option processing *)

\* seconds in a year, in the model's unit of time (half a year)
secpera == 2

\* side of the square domain, in the model's unit of length (300 km)
L == 6

\* The fields of AppCtx that main and the initial thickness read.  The
\* fields read only by the flux formulas (A_ice, delta, eps, lambda, g,
\* rho_ice, Gamma) are carried by the contexts of the call-back part below.
AppCtxDefaults ==
    [ secpera   |-> secpera,
      L         |-> L,
      tf        |-> 100 * secpera,
      dtinit    |-> 10 * secpera,
      n_ice     |-> 3,
      D0        |-> 1,
      initmagic |-> 1000,
      verif     |-> FALSE ]

\* the toolkit calls of SetFromOptionsAppCtx, in order
AppCtxCalls == <<"PetscOptionsBegin", "-A", "-delta", "-dtinit", "-eps",
                 "-initmagic", "-lambda", "-n", "-tf", "-verif",
                 "PetscOptionsEnd">>

\* the effect on the context of one successful option call
OptionEffect(name, o, u) ==
    CASE name = "-dtinit" ->
            IF IsSet(o.dtinit) THEN [u EXCEPT !.dtinit = o.dtinit[1] * u.secpera]
            ELSE u
      [] name = "-initmagic" ->
            IF IsSet(o.initmagic) THEN [u EXCEPT !.initmagic = o.initmagic[1]]
            ELSE u
      [] name = "-n" ->
            IF IsSet(o.n) THEN [u EXCEPT !.n_ice = o.n[1]] ELSE u
      [] name = "-tf" ->
            IF IsSet(o.tf) THEN [u EXCEPT !.tf = o.tf[1] * u.secpera] ELSE u
      [] name = "-verif" ->
            IF IsSet(o.verif) THEN [u EXCEPT !.verif = o.verif[1]] ELSE u
      [] OTHER -> u

RECURSIVE UserAfter(_, _)
\* the context after the first k option calls have succeeded
UserAfter(k, o) ==
    IF k = 0 THEN AppCtxDefaults
    ELSE OptionEffect(AppCtxCalls[k], o, UserAfter(k - 1, o))

nNotAllowedStrict(n) == n < 1

\* the test  if (user->n_ice <= 1.0)  that raises error 11
nNotAllowed(n) == n <= 1

\* SetFromOptionsAppCtx, where toolkit call number failAt (0: none) returns
\* the nonzero status errc.  Gives the status returned and the context left.
SetFromOptionsAppCtx(o, failAt, errc) ==
    LET nIdx == IndexOf(AppCtxCalls, "-n")
    IN  IF failAt \in 1 .. nIdx
        THEN [ret |-> errc, user |-> UserAfter(failAt - 1, o)]
        ELSE IF nNotAllowed(UserAfter(nIdx, o).n_ice)
        THEN [ret |-> 11, user |-> UserAfter(nIdx, o)]
        ELSE IF failAt > nIdx
        THEN [ret |-> errc, user |-> UserAfter(failAt - 1, o)]
        ELSE [ret |-> 0, user |-> UserAfter(Len(AppCtxCalls), o)]

\* which branch getdelta takes: the power law (n > 1) or the constant Gamma
getdeltaBranch(u) == IF u.n_ice > 1 THEN "power" ELSE "gamma"

---------------------------------------------------------------------------
(* ice: grid patches, bed elevation, initial thickness *)

\* DMDALocalInfo of a process patch
Info(mx, my, xs, ys, xm, ym) ==
    [mx |-> mx, my |-> my, xs |-> xs, ys |-> ys, xm |-> xm, ym |-> ym]

Owned(info) == (info.xs .. info.xs + info.xm - 1)
                  \X (info.ys .. info.ys + info.ym - 1)

WholeGrid == Info(GridM, GridM, 0, 0, GridM, GridM)

\* The bed b(x,y) = scalec * sum C[r][s] sin(jc[r] Z x) sin(kc[s] Z y) at the
\* grid point x = j dx, y = k dy.  The sum of sines is modelled by a table of
\* elevations: it is 0 where x = 0 or y = 0 (sin 0 = 0), and takes both
\* signs elsewhere.
BedElevation(j, k) ==
    IF j = 0 \/ k = 0 THEN 0
    ELSE IF (j + k) % 2 = 0 THEN 8
    ELSE IF j < k THEN -8 ELSE 0

\* FormBedLocal: the owned entries of ab
FormBedLocal(info, u) == [n \in Owned(info) |-> BedElevation(n[1], n[2])]

\* M_CMBModel (cmbmodel.h): the mass balance at surface elevation s
M_CMBModel(c, s) == c[s]

\* ChopScaleCMBInitialHLocal: the owned entries of aH
ChopScaleCMBInitialHLocal(info, u, c) ==
    LET b == FormBedLocal(info, u)
    IN  [n \in Owned(info) |->
            LET M == M_CMBModel(c, b[n])
            IN  (IF M < 0 THEN 0 ELSE M) * (u.initmagic * u.secpera)]

---------------------------------------------------------------------------
(* The two main programs as lists of status-returning calls.               *)
(* Each entry: the source line, the call, whether its status is checked    *)
(* (CHKERRQ follows it), and the branch of main it belongs to.             *)

Call(line, name, checked, when) ==
    [line |-> line, call |-> name, checked |-> checked, when |-> when]

IceMain == <<
    Call( 90, "PetscInitialize",               FALSE, "always"),
    Call( 92, "SetFromOptionsAppCtx",          TRUE,  "always"),
    Call( 93, "SetFromOptions_CMBModel",       FALSE, "always"),
    Call( 97, "DMDACreate2d",                  FALSE, "always"),
    Call(103, "DMSetFromOptions",              TRUE,  "always"),
    Call(104, "DMSetUp",                       TRUE,  "always"),
    Call(105, "DMSetApplicationContext",       TRUE,  "always"),
    Call(106, "DMDASetUniformCoordinates",     TRUE,  "always"),
    Call(109, "DMDAGetLocalInfo",              TRUE,  "always"),
    Call(112, "PetscPrintf",                   FALSE, "always"),
    Call(117, "DMCreateGlobalVector",          TRUE,  "always"),
    Call(118, "PetscObjectSetName",            TRUE,  "always"),
    Call(121, "TSCreate",                      TRUE,  "always"),
    Call(122, "TSSetProblemType",              TRUE,  "always"),
    Call(123, "TSSetType",                     TRUE,  "always"),
    Call(124, "TSSetDM",                       TRUE,  "always"),
    Call(125, "DMDATSSetIFunctionLocal",       TRUE,  "always"),
    Call(127, "DMDATSSetRHSFunctionLocal",     TRUE,  "always"),
    Call(129, "TSMonitorSet",                  TRUE,  "always"),
    Call(132, "TSGetSNES",                     TRUE,  "always"),
    Call(133, "SNESSetType",                   TRUE,  "always"),
    Call(134, "SNESVISetComputeVariableBounds", TRUE, "always"),
    Call(137, "TSSetExactFinalTime",           TRUE,  "always"),
    Call(138, "TSSetInitialTimeStep",          TRUE,  "always"),
    Call(139, "TSSetDuration",                 TRUE,  "always"),
    Call(140, "TSSetFromOptions",              TRUE,  "always"),
    Call(143, "DMDAVecGetArray",               TRUE,  "always"),
    Call(145, "DomeThicknessLocal",            TRUE,  "verif"),
    Call(148, "ChopScaleCMBInitialHLocal",     TRUE,  "noverif"),
    Call(150, "DMDAVecRestoreArray",           TRUE,  "always"),
    Call(153, "TSSolve",                       TRUE,  "always"),
    Call(159, "VecDuplicate",                  TRUE,  "verif"),
    Call(160, "DMDAVecGetArray",               TRUE,  "verif"),
    Call(161, "DomeThicknessLocal",            TRUE,  "verif"),
    Call(162, "DMDAVecRestoreArray",           TRUE,  "verif"),
    Call(163, "VecAXPY",                       TRUE,  "verif"),
    Call(164, "VecDestroy",                    FALSE, "verif"),
    Call(165, "VecNorm",                       TRUE,  "verif"),
    Call(166, "VecNorm",                       TRUE,  "verif"),
    Call(167, "PetscPrintf",                   TRUE,  "verif"),
    Call(173, "VecDestroy",                    FALSE, "always"),
    Call(174, "TSDestroy",                     FALSE, "always"),
    Call(174, "DMDestroy",                     FALSE, "always"),
    Call(175, "PetscFinalize",                 FALSE, "always") >>

FishMain == <<
    Call(119, "PetscInitialize",               FALSE, "always"),
    Call(121, "PetscOptionsBegin",             TRUE,  "always"),
    Call(122, "-Lx",                           TRUE,  "always"),
    Call(124, "-Ly",                           TRUE,  "always"),
    Call(126, "-init_random",                  TRUE,  "always"),
    Call(129, "-problem",                      TRUE,  "always"),
    Call(135, "PetscOptionsEnd",               TRUE,  "always"),
    Call(137, "DMDACreate2d",                  TRUE,  "always"),
    Call(142, "DMSetFromOptions",              TRUE,  "always"),
    Call(143, "DMSetUp",                       TRUE,  "always"),
    Call(144, "DMSetApplicationContext",       TRUE,  "always"),
    Call(145, "DMDASetUniformCoordinates",     TRUE,  "always"),
    Call(146, "DMCreateGlobalVector",          TRUE,  "always"),
    Call(147, "PetscObjectSetName",            TRUE,  "always"),
    Call(149, "SNESCreate",                    TRUE,  "always"),
    Call(150, "SNESSetDM",                     TRUE,  "always"),
    Call(151, "DMDASNESSetFunctionLocal",      TRUE,  "always"),
    Call(153, "DMDASNESSetJacobianLocal",      TRUE,  "always"),
    Call(155, "SNESGetKSP",                    TRUE,  "always"),
    Call(156, "KSPSetType",                    TRUE,  "always"),
    Call(157, "SNESSetFromOptions",            TRUE,  "always"),
    Call(161, "PetscRandomCreate",             TRUE,  "random"),
    Call(162, "VecSetRandom",                  TRUE,  "random"),
    Call(163, "PetscRandomDestroy",            TRUE,  "random"),
    Call(165, "VecSet",                        TRUE,  "norandom"),
    Call(168, "SNESSolve",                     TRUE,  "always"),
    Call(170, "DMDAGetLocalInfo",              TRUE,  "always"),
    Call(171, "VecDuplicate",                  TRUE,  "always"),
    Call(172, "formExact",                     TRUE,  "always"),
    Call(173, "VecAXPY",                       TRUE,  "always"),
    Call(174, "VecNorm",                       TRUE,  "always"),
    Call(175, "VecNorm",                       TRUE,  "always"),
    Call(177, "PetscPrintf",                   TRUE,  "always"),
    Call(181, "VecDestroy",                    FALSE, "always"),
    Call(181, "VecDestroy",                    FALSE, "always"),
    Call(182, "SNESDestroy",                   FALSE, "always"),
    Call(182, "DMDestroy",                     FALSE, "always"),
    Call(183, "PetscFinalize",                 FALSE, "always") >>

Program == IF prog = "ice" THEN IceMain ELSE FishMain

\* the calls whose effect on the program's data the model follows; every
\* other call only returns a status
SpecialCalls == {"SetFromOptionsAppCtx", "SetFromOptions_CMBModel",
                 "DomeThicknessLocal", "ChopScaleCMBInitialHLocal", "TSSolve",
                 "-Lx", "-Ly", "-init_random", "-problem", "formExact"}

\* whether main's branch `when` is taken with context u
Taken(when, u) ==
    CASE when = "always"   -> TRUE
      [] when = "verif"    -> u.verif
      [] when = "noverif"  -> ~ u.verif
      [] when = "random"   -> u.init_random
      [] when = "norandom" -> ~ u.init_random

\* the next call main makes after call i, with context u
NextPc(i, u) ==
    LET later == { m \in (i + 1) .. Len(Program) : Taken(Program[m].when, u) }
    IN  IF later = {} THEN Len(Program) + 1
        ELSE CHOOSE m \in later : \A m2 \in later : m <= m2

Running == ret = << >>

AtCall(name) == Running /\ pc \in 1 .. Len(Program) /\ Program[pc].call = name

\* what main does with the status rc of the call at pc: CHKERRQ returns a
\* nonzero status at once; an unchecked status is dropped.  u is the context
\* after the call.
Returned(rc, u) ==
    /\ failed' = IF rc # 0 /\ failed = 0 THEN pc ELSE failed
    /\ ranAfterFail' = IF failed # 0 THEN ranAfterFail \cup {pc} ELSE ranAfterFail
    /\ executed' = executed \cup {pc}
    /\ IF rc # 0 /\ Program[pc].checked
       THEN ret' = <<rc>> /\ pc' = pc
       ELSE ret' = ret /\ pc' = NextPc(pc, u)

---------------------------------------------------------------------------
(* Command lines and initial states of the main programs *)

IceOpts == [ n         : OptValues(0 .. MaxN),
             initmagic : OptValues(-MaxMagic .. MaxMagic),
             verif     : OptValues({TRUE}),
             tf        : OptValues({50}),
             dtinit    : {Unset} ]

\* -fsh_Lx and -fsh_Ly are given, with values that make the grid spacing
\* Lx/(mx-1) an integer
FishOpts == [ Lx          : { <<2>>, <<4>> },
              Ly          : { <<2>>, <<4>> },
              init_random : OptValues({TRUE}),
              problem     : OptValues(0 .. Len(PoissonProblemTypes) - 1) ]

\* main of fish.c before the options are read: user.problem = MANUEXP,
\* Lx = Ly = 1.0, init_random = PETSC_FALSE; the function pointers are not
\* set yet
FishInitialCtx ==
    [ problem |-> MANUEXP, u_exact |-> "unset", f_rhs |-> "unset",
      Lx |-> 1, Ly |-> 1, init_random |-> FALSE ]

\* the elevations at which the mass balance is evaluated by main
Elevations == { BedElevation(n[1], n[2]) : n \in Owned(WholeGrid) }

CMBTables == [Elevations -> -MaxM .. MaxM]

ZeroField == [n \in Owned(WholeGrid) |-> 0]

\* DomeThicknessLocal (exactdome.h): the exact dome, a nonnegative thickness
DomeThicknessLocal(info, u) ==
    [n \in Owned(info) |-> IF n = <<1, 1>> THEN 8 ELSE 0]

MainInit ==
    /\ prog \in {"ice", "fish"}
    /\ opts \in (IF prog = "ice" THEN IceOpts ELSE FishOpts)
    /\ user = IF prog = "ice" THEN AppCtxDefaults ELSE FishInitialCtx
    /\ pc = 1
    /\ ret = << >>
    /\ cmb = [e \in Elevations |-> 0]
    /\ vecH = ZeroField
    /\ uexact = ZeroField
    /\ appRet = << >>
    /\ failed = 0
    /\ ranAfterFail = {}
    /\ executed = {}
    /\ branches = {}
    \* the other parts of the model are idle while a main program runs
    /\ ctx = << >> /\ cuts = << >> /\ tsH = << >> /\ tsHdot = << >>
    /\ tsF = << >> /\ tsG = << >> /\ recI = << >> /\ recR = << >>
    /\ fin = << >> /\ fout = << >>

---------------------------------------------------------------------------
(* The steps of the main programs *)

\* a toolkit call that only returns a status
ToolkitCall ==
    /\ Running /\ pc \in 1 .. Len(Program)
    /\ Program[pc].call \notin SpecialCalls
    /\ \E rc \in 0 .. MaxRc : Returned(rc, user)
    /\ UNCHANGED <<fluxVars, pointVars, prog, opts, user, cmb, vecH, uexact, appRet, branches>>

\* ierr = SetFromOptionsAppCtx(&user); CHKERRQ(ierr);
CallSetFromOptionsAppCtx ==
    /\ AtCall("SetFromOptionsAppCtx")
    /\ \E failAt \in 0 .. Len(AppCtxCalls), errc \in 1 .. MaxRc :
          LET r == SetFromOptionsAppCtx(opts, failAt, errc)
          IN  /\ user' = r.user
              /\ appRet' = <<r.ret>>
              /\ Returned(r.ret, r.user)
    /\ UNCHANGED <<fluxVars, pointVars, prog, opts, cmb, vecH, uexact, branches>>

\* ierr = SetFromOptions_CMBModel(&cmb,"ice_cmb_",user.secpera);
\* the model it sets up is any table; when it fails cmb is whatever it left
CallSetFromOptions_CMBModel ==
    /\ AtCall("SetFromOptions_CMBModel")
    /\ \E rc \in 0 .. MaxRc, c \in CMBTables :
          /\ cmb' = c
          /\ Returned(rc, user)
    /\ UNCHANGED <<fluxVars, pointVars, prog, opts, user, vecH, uexact, appRet, branches>>

\* ierr = DomeThicknessLocal(&info,aH,&user); CHKERRQ(ierr);
\* the first call fills H, the second the vector Hexact
CallDomeThicknessLocal ==
    /\ AtCall("DomeThicknessLocal")
    /\ \E rc \in 0 .. MaxRc :
          /\ vecH' = IF rc = 0 /\ "TSSolve" \notin { Program[i].call : i \in executed }
                   THEN DomeThicknessLocal(WholeGrid, user) ELSE vecH
          /\ Returned(rc, user)
    /\ UNCHANGED <<fluxVars, pointVars, prog, opts, user, cmb, uexact, appRet, branches>>

\* ierr = ChopScaleCMBInitialHLocal(&info,aH,&user); CHKERRQ(ierr);
\* it always returns 0
CallChopScaleCMBInitialHLocal ==
    /\ AtCall("ChopScaleCMBInitialHLocal")
    /\ vecH' = ChopScaleCMBInitialHLocal(WholeGrid, user, cmb)
    /\ Returned(0, user)
    /\ UNCHANGED <<fluxVars, pointVars, prog, opts, user, cmb, uexact, appRet, branches>>

\* ierr = TSSolve(ts,H); CHKERRQ(ierr);
\* the integrator calls FormIFunctionLocal, whose flux loop calls getdelta,
\* at least once when it succeeds; it leaves some thickness in H
CallTSSolve ==
    /\ AtCall("TSSolve")
    /\ \E rc \in 0 .. MaxRc, called \in BOOLEAN, H \in {vecH, ZeroField} :
          /\ rc = 0 => called
          /\ branches' = IF called THEN branches \cup {getdeltaBranch(user)}
                         ELSE branches
          /\ vecH' = H
          /\ Returned(rc, user)
    /\ UNCHANGED <<fluxVars, pointVars, prog, opts, user, cmb, uexact, appRet>>

\* lines 133-134 of fish.c: the pointers installed for user.problem
InstallProblem(u) ==
    [u EXCEPT !.u_exact = u_exact_ptr[u.problem + 1],
              !.f_rhs   = f_rhs_ptr[u.problem + 1]]

\* the effect on main's data of a successful option call of fish.c
FishOptionEffect(name, o, u) ==
    CASE name = "-Lx" -> IF IsSet(o.Lx) THEN [u EXCEPT !.Lx = o.Lx[1]] ELSE u
      [] name = "-Ly" -> IF IsSet(o.Ly) THEN [u EXCEPT !.Ly = o.Ly[1]] ELSE u
      [] name = "-init_random" ->
            IF IsSet(o.init_random)
            THEN [u EXCEPT !.init_random = o.init_random[1]] ELSE u
      [] name = "-problem" ->
            InstallProblem(IF IsSet(o.problem)
                           THEN [u EXCEPT !.problem = o.problem[1]] ELSE u)

\* ierr = PetscOptionsReal/Bool/Enum(...); CHKERRQ(ierr);
CallFishOption ==
    /\ Running /\ pc \in 1 .. Len(Program)
    /\ Program[pc].call \in {"-Lx", "-Ly", "-init_random", "-problem"}
    /\ \E rc \in 0 .. MaxRc :
          LET u == IF rc = 0 THEN FishOptionEffect(Program[pc].call, opts, user)
                   ELSE user
          IN  user' = u /\ Returned(rc, u)
    /\ UNCHANGED <<fluxVars, pointVars, prog, opts, cmb, vecH, uexact, appRet, branches>>

\* ierr = formExact(&info,uexact,&user); CHKERRQ(ierr);
CallFormExact ==
    /\ AtCall("formExact")
    /\ \E rc \in 0 .. MaxRc :
          /\ uexact' = IF rc = 0 THEN formExact(user.Lx, user.Ly, user) ELSE uexact
          /\ Returned(rc, user)
    /\ UNCHANGED <<fluxVars, pointVars, prog, opts, user, cmb, vecH, appRet, branches>>

\* return 0;
MainReturn ==
    /\ Running /\ pc = Len(Program) + 1
    /\ ret' = <<0>>
    /\ UNCHANGED <<fluxVars, pointVars, prog, pc, opts, user, cmb, vecH, uexact, appRet, failed,
                   ranAfterFail, executed, branches>>

MainNext ==
    \/ ToolkitCall
    \/ CallSetFromOptionsAppCtx
    \/ CallSetFromOptions_CMBModel
    \/ CallDomeThicknessLocal
    \/ CallChopScaleCMBInitialHLocal
    \/ CallTSSolve
    \/ CallFishOption
    \/ CallFormExact
    \/ MainReturn

SpecMain == MainInit /\ [][MainNext]_vars

---------------------------------------------------------------------------
(* Properties of the main programs *)

ExecutedCalls == { Program[i].call : i \in executed }

\* C1 (as claimed): in the ice main, once SetFromOptions_CMBModel,
\* DMDACreate2d or PetscPrintf has returned a nonzero status, main has
\* returned a nonzero status and has made no further call.
C1_NamedCallsPropagate ==
    (prog = "ice" /\ failed # 0
       /\ Program[failed].call \in {"SetFromOptions_CMBModel", "DMDACreate2d",
                                    "PetscPrintf"})
    => (~ Running /\ ret # <<0>> /\ ranAfterFail = {})

InitialThicknessWritten ==
    /\ prog = "ice"
    /\ "ChopScaleCMBInitialHLocal" \in ExecutedCalls
    /\ "TSSolve" \notin ExecutedCalls

\* C3 (as claimed): for every accepted configuration the initial thickness
\* is max(CMB(b),0) * initmagic * secpera, is >= 0 at every owned node, and
\* is 0 wherever CMB(b) <= 0.
C3_InitialThicknessNonnegative ==
    InitialThicknessWritten =>
      \A n \in Owned(WholeGrid) :
         LET M == M_CMBModel(cmb, BedElevation(n[1], n[2]))
         IN  /\ vecH[n] = (IF M > 0 THEN M ELSE 0) * user.initmagic * user.secpera
             /\ vecH[n] >= 0
             /\ M <= 0 => vecH[n] = 0

\* the 5-point second difference of u at (x,y) with steps hx, hy, cleared of
\* denominators: hx^2 hy^2 (d_xx u + d_yy u)
SecondDifference(fn, x, y, hx, hy) ==
    LET u(a, b) == CallPtr(fn, a, b, 0)
    IN    hy * hy * (u(x + hx, y) - 2 * u(x, y) + u(x - hx, y))
        + hx * hx * (u(x, y + hy) - 2 * u(x, y) + u(x, y - hy))

\* C4: once the pointers are installed, u_exact and f_rhs come from the same
\* table index, the index user.problem, and f_rhs is minus the Laplacian of
\* u_exact: for manupoly minus the exact second difference of the polynomial,
\* for manuexp f = -u, for zero f = u = 0.
C4_RhsIsNegativeLaplacian ==
    (prog = "fish" /\ user.u_exact # "unset") =>
      /\ user.u_exact = u_exact_ptr[user.problem + 1]
      /\ user.f_rhs = f_rhs_ptr[user.problem + 1]
      /\ IndexOf(u_exact_ptr, user.u_exact) = IndexOf(f_rhs_ptr, user.f_rhs)
      /\ CASE user.u_exact = "u_exact_manupoly" ->
                \A x \in -MaxXY .. MaxXY, y \in -MaxXY .. MaxXY,
                   hx \in 1 .. MaxStep, hy \in 1 .. MaxStep :
                   SecondDifference(user.u_exact, x, y, hx, hy)
                     = - hx * hx * hy * hy * CallPtr(user.f_rhs, x, y, 0)
           [] user.u_exact = "u_exact_manuexp" ->
                \A x \in -MaxXY .. MaxXY, y \in 0 .. MaxXY :
                   CallPtr(user.f_rhs, x, y, 0) = - CallPtr(user.u_exact, x, y, 0)
           [] user.u_exact = "u_exact_zero" ->
                \A x \in -MaxXY .. MaxXY, y \in -MaxXY .. MaxXY :
                   /\ CallPtr(user.f_rhs, x, y, 0) = 0
                   /\ CallPtr(user.u_exact, x, y, 0) = 0

\* C4 witness: -fsh_problem manupoly was given and formExact has filled
\* uexact from the installed exact solution
C4_Witness ==
    /\ prog = "fish" /\ opts.problem = <<0>>
    /\ user.u_exact = "u_exact_manupoly" /\ user.f_rhs = "f_rhs_manupoly"
    /\ "formExact" \in ExecutedCalls
    /\ \E n \in FishNodes : uexact[n] # 0

---------------------------------------------------------------------------
(* ice: the flux formulas.                                                 *)
(* Arrays are functions of the node <<j,k>> (the code writes a[k][j]).     *)
(* Local coordinates in an element are counted in eighths of the element   *)
(* (xi = 4 is its middle) and lambda in quarters, so that (1-lambda)/2 is   *)
(* the coordinate 4 - lambda.                                              *)

\* value of gradient at a point
Grad(x, y) == [x |-> x, y |-> y]

getdelta(gH, gb, u) ==
    LET n == u.n_ice
    IN  IF getdeltaBranch(u) = "power"
        THEN LET sx == gH.x + gb.x
                 sy == gH.y + gb.y
                 slopesqr == sx * sx + sy * sy + u.delta * u.delta
             IN  u.Gamma * PetscPowInt(slopesqr, (n - 1) \div 2)
        ELSE u.Gamma

getW(delta, gb) == Grad(- delta * gb.x, - delta * gb.y)

\* the diffusivity with the signed power of the thickness
DCSSignedPower(delta, H, n, eps, D0) ==
    (1 - eps) * delta * PetscPowInt(H, n + 2) + eps * D0

DCS(delta, H, n, eps, D0) ==
    (1 - eps) * delta * PetscPowInt(PetscAbsReal(H), n + 2) + eps * D0

getflux(gH, gb, H, Hup, xdir, u) ==
    LET n     == u.n_ice
        delta == getdelta(gH, gb, u)
        myD   == DCS(delta, H, n, u.eps, u.D0)
        myW   == getW(delta, gb)
    IN  IF xdir
        THEN - myD * gH.x + myW.x * PetscPowInt(PetscAbsReal(Hup), n + 2)
        ELSE - myD * gH.y + myW.y * PetscPowInt(PetscAbsReal(Hup), n + 2)

\* gradients of weights for Q^1 interpolant
gx == <<-1, 1, 1, -1>>

gy == <<-1, -1, 1, 1>>

\* 64 times the Q^1 interpolant at (xi, eta), the coordinates in eighths
fieldatpt64(xi, eta, f) ==
    LET x == <<8 - xi, xi, xi, 8 - xi>>
        y == <<8 - eta, 8 - eta, eta, eta>>
    IN    x[1] * y[1] * f[1] + x[2] * y[2] * f[2]
        + x[3] * y[3] * f[3] + x[4] * y[4] * f[4]

fieldatpt(xi, eta, f) == fieldatpt64(xi, eta, f) \div 64

\* the four corner values of element (u,v): f[v][u], f[v][u+1], f[v+1][u+1],
\* f[v+1][u]
Corners(u, v, f) ==
    << f[<<u, v>>], f[<<u + 1, v>>], f[<<u + 1, v + 1>>], f[<<u, v + 1>>] >>

fieldatptArray(u, v, xi, eta, f) == fieldatpt(xi, eta, Corners(u, v, f))

gradfatpt(xi, eta, dx, dy, f) ==
    LET x == <<8 - xi, xi, xi, 8 - xi>>
        y == <<8 - eta, 8 - eta, eta, eta>>
    IN  Grad( (  gx[1] * y[1] * f[1] + gx[2] * y[2] * f[2]
               + gx[3] * y[3] * f[3] + gx[4] * y[4] * f[4]) \div (8 * dx),
              (  x[1] * gy[1] * f[1] + x[2] * gy[2] * f[2]
               + x[3] * gy[3] * f[3] + x[4] * gy[4] * f[4]) \div (8 * dy) )

gradfatptArray(u, v, xi, eta, dx, dy, f) ==
    gradfatpt(xi, eta, dx, dy, Corners(u, v, f))

\* indexing of the 8 quadrature points along the boundary of the control
\* volume: point s = 0..7 (here 1..8) is in element (j+je[s], k+ke[s]) and
\* uses flux component ce[s] = 0..3
je == <<0, 0, -1, -1, -1, -1, 0, 0>>

ke == <<0, 0, 0, 0, -1, -1, -1, -1>>

ce == <<0, 3, 1, 0, 2, 1, 3, 2>>

\* direction of flux at 4 points in each element
xdire == <<TRUE, FALSE, TRUE, FALSE>>

\* local coords of quadrature points, in eighths: 0.5, 0.75, 0.5, 0.25
locx == <<4, 6, 4, 2>>

\* 0.25, 0.5, 0.75, 0.5
locy == <<2, 4, 6, 4>>

\* the coefficients with the sign of the left side given to the right side
coeffRightSideSign(dx, dy) ==
    << -(dy \div 2), dx \div 2, dx \div 2, -(dy \div 2),
       -(dy \div 2), -(dx \div 2), -(dx \div 2), -(dy \div 2) >>

\* coefficients of quadrature evaluations along the boundary of the control
\* volume
coeff(dx, dy) ==
    << dy \div 2, dx \div 2, dx \div 2, -(dy \div 2),
       -(dy \div 2), -(dx \div 2), -(dx \div 2), dy \div 2 >>

upwind(u) == u.lambda > 0

\* upmin = (1 - lambda) * 0.5 and upmax = (1 + lambda) * 0.5, in eighths
upmin(u) == 4 - u.lambda

upmax(u) == 4 + u.lambda

\* the upwind point taken on the side the bed-driven velocity goes to
UpwindPointDownwind(xi, eta, xdir, gb, u) ==
    IF xdir
    THEN << IF gb.x <= 0 THEN upmax(u) ELSE upmin(u), eta >>
    ELSE << xi, IF gb.y <= 0 THEN upmax(u) ELSE upmin(u) >>

\* the point <<lxup, lyup>> at which the upwinded thickness is evaluated for
\* a flux in direction xdir at (xi, eta), where the bed gradient is gb
UpwindPoint(xi, eta, xdir, gb, u) ==
    IF xdir
    THEN << IF gb.x <= 0 THEN upmin(u) ELSE upmax(u), eta >>
    ELSE << xi, IF gb.y <= 0 THEN upmin(u) ELSE upmax(u) >>

\* 64 times the thickness Hup the flux loop uses at the local point
\* (xi, eta) of an element with corner thicknesses f (lines 480-490)
UpwindThickness64(xi, eta, xdir, gb, f, u) ==
    IF upwind(u)
    THEN LET p == UpwindPoint(xi, eta, xdir, gb, u)
         IN  fieldatpt64(p[1], p[2], f)
    ELSE fieldatpt64(xi, eta, f)

\* the body of the flux loop for element (j,k): the flux component in
\* direction xdir at the local point (xi, eta)
FluxAt(j, k, xi, eta, xdir, dx, dy, aH, ab, u) ==
    LET H   == fieldatptArray(j, k, xi, eta, aH)
        gH  == gradfatptArray(j, k, xi, eta, dx, dy, aH)
        gb  == gradfatptArray(j, k, xi, eta, dx, dy, ab)
        Hup == UpwindThickness64(xi, eta, xdir, gb, Corners(j, k, aH), u) \div 64
    IN  getflux(gH, gb, H, Hup, xdir, u)

---------------------------------------------------------------------------
(* ice: the call-backs on a process patch *)

\* the nodes of a local (ghosted) array of the patch: stencil width 1
Ghosted(info) == (info.xs - 1 .. info.xs + info.xm)
                    \X (info.ys - 1 .. info.ys + info.ym)

\* the node of the periodic grid that index n denotes
Wrap(n, info) == << n[1] % info.mx, n[2] % info.my >>

\* the local array of a global vector, its ghost values filled by the
\* toolkit from the owners (DM_BOUNDARY_PERIODIC, DMDA_STENCIL_BOX)
LocalArray(info, g) == [n \in Ghosted(info) |-> g[Wrap(n, info)]]

\* the array of a global vector: the owned entries
OwnedArray(info, g) == [n \in Owned(info) |-> g[n]]

\* the elements the flux loop goes through: it starts at (xs-1, ys-1)
Elements(info) == (info.xs - 1 .. info.xs + info.xm - 1)
                     \X (info.ys - 1 .. info.ys + info.ym - 1)

\* the nodes the node loop goes through, in order: k outside, j inside
NodeLoop(info) ==
    [i \in 1 .. info.xm * info.ym |->
        << info.xs + ((i - 1) % info.xm), info.ys + ((i - 1) \div info.xm) >>]

Range(s) == { s[i] : i \in DOMAIN s }

\* the vectors a call-back creates, and its toolkit calls on them
VecB == <<"b", 0>>

VecQ(c) == <<"qquad", c>>

Op(op, vec) == [op |-> op, vec |-> vec]

\* lines 455-471 of FormIFunctionLocal
VecOpsBeforeLoops(u) ==
    << Op("DMCreateLocalVector", VecB) >>
    \o (IF u.verif
        THEN << Op("VecSet", VecB) >>
        ELSE << Op("DMDAVecGetArray", VecB), Op("DMDAVecRestoreArray", VecB),
                Op("DMLocalToLocalBegin", VecB), Op("DMLocalToLocalEnd", VecB) >>)
    \o << Op("DMDAVecGetArray", VecB) >>
    \o [i \in 1 .. 8 |->
          IF i % 2 = 1 THEN Op("DMCreateLocalVector", VecQ((i - 1) \div 2))
          ELSE Op("DMDAVecGetArray", VecQ((i - 1) \div 2))]

\* lines 511-516 of FormIFunctionLocal
VecOpsAfterLoops(u) ==
    [i \in 1 .. 8 |->
          IF i % 2 = 1 THEN Op("DMDAVecRestoreArray", VecQ((i - 1) \div 2))
          ELSE Op("VecDestroy", VecQ((i - 1) \div 2))]
    \o << Op("DMDAVecRestoreArray", VecB), Op("VecDestroy", VecB) >>

\* the local bed array without the ghost exchange after FormBedLocal
BedLocalArrayNoExchange(info, u) ==
    [n \in Ghosted(info) |->
        IF u.verif \/ n \notin Owned(info) THEN 0
        ELSE BedElevation(n[1], n[2])]

\* the local bed array ab of FormIFunctionLocal: zero in the verification
\* case; otherwise FormBedLocal on the owned nodes, and on the ghost nodes
\* what DMLocalToLocal brings from the owner, which ran FormBedLocal too
BedLocalArray(info, u) ==
    IF u.verif THEN [n \in Ghosted(info) |-> 0]
    ELSE LET own == FormBedLocal(info, u)
         IN  [n \in Ghosted(info) |->
                IF n \in Owned(info) THEN own[n]
                ELSE LET w == Wrap(n, info)
                     IN  FormBedLocal(Info(info.mx, info.my, w[1], w[2], 1, 1), u)[w]]

\* a store into an entry of the output array: "=" assigns, "+=" adds
Store(node, op, val) == [node |-> node, op |-> op, val |-> val]

\* the value of entry n after the first i of the stores, v before them
RECURSIVE ValueAfter(_, _, _, _)
ValueAfter(v, stores, n, i) ==
    IF i = 0 THEN v
    ELSE LET prev == ValueAfter(v, stores, n, i - 1)
             st   == stores[i]
         IN  IF st.node # n THEN prev
             ELSE IF st.op = "=" THEN st.val ELSE prev + st.val

\* the array after the stores, in order
ApplyStores(F, stores) ==
    [n \in DOMAIN F |->
        LET at == SelectSeq(stores, LAMBDA st : st.node = n)
        IN  ValueAfter(F[n], at, n, Len(at))]

\* the stores of a node loop, node after node
RECURSIVE LoopStores(_, _)
LoopStores(nodes, body) ==
    IF nodes = << >> THEN << >>
    ELSE body[Head(nodes)] \o LoopStores(Tail(nodes), body)

\* a node loop that accumulates into FF from its first store on
NodeStoresAccumulating(n, aHdot, dx, dy, aqquad) ==
    << Store(n, "+=", aHdot[n] * dx * dy) >>
    \o [s \in 1 .. 8 |->
          Store(n, "+=",
                coeff(dx, dy)[s]
                * aqquad[ce[s] + 1][<< n[1] + je[s], n[2] + ke[s] >>])]

\* the stores into FF of one pass of the node loop at node n (lines
\* 501-507): the time derivative term, then the 8 quadrature points
NodeStores(n, aHdot, dx, dy, aqquad) ==
    LET cf == coeff(dx, dy)
    IN  << Store(n, "=", aHdot[n] * dx * dy) >>
        \o [s \in 1 .. 8 |->
              Store(n, "+=",
                    cf[s] * aqquad[ce[s] + 1][<< n[1] + je[s], n[2] + ke[s] >>])]

\* the flux loop (lines 475-495): aqquad[c][k][j] for the 4 points c of
\* every element (j,k) of the patch
FluxLoop(info, dx, dy, aH, ab, u) ==
    [c \in 1 .. 4 |->
        [e \in Elements(info) |->
            FluxAt(e[1], e[2], locx[c], locy[c], xdire[c], dx, dy, aH, ab, u)]]

\* FormIFunctionLocal on a patch, returning 0: the arrays and the context as
\* the call leaves them, its stores into FF (in order) and its toolkit
\* calls on the vectors it creates
FormIFunctionLocal(info, t, aH, aHdot, FF, u) ==
    LET dx == u.L \div info.mx
        dy == u.L \div info.my
        ab == BedLocalArray(info, u)
        aqquad == FluxLoop(info, dx, dy, aH, ab, u)
        nodes == NodeLoop(info)
        stores == LoopStores(nodes,
                     [n \in Range(nodes) |-> NodeStores(n, aHdot, dx, dy, aqquad)])
    IN  [ ret    |-> 0,
          aH     |-> aH,
          aHdot  |-> aHdot,
          user   |-> u,
          out    |-> ApplyStores(FF, stores),
          aqquad |-> aqquad,
          stores |-> stores,
          vecops |-> VecOpsBeforeLoops(u) \o VecOpsAfterLoops(u) ]

\* DomeCMB (exactdome.h): the mass balance of the exact dome at (x,y)
DomeCMB(x, y, u) == IF x = y THEN 1 ELSE -1

\* the store into GG of one pass of the node loop at node n (lines 537-541)
SourceStores(n, aH, ab, dx, dy, u) ==
    << Store(n, "=",
             (IF u.verif
              THEN DomeCMB(n[1] * dx, n[2] * dy, u)
              ELSE M_CMBModel(u.cmb, ab[n] + aH[n])) * dx * dy) >>

\* FormRHSFunctionLocal on a patch, returning 0
FormRHSFunctionLocal(info, t, aH, GG, u) ==
    LET dx == u.L \div info.mx
        dy == u.L \div info.my
        ab == FormBedLocal(info, u)
        nodes == NodeLoop(info)
        stores == LoopStores(nodes,
                     [n \in Range(nodes) |-> SourceStores(n, aH, ab, dx, dy, u)])
    IN  [ ret    |-> 0,
          aH     |-> aH,
          aHdot  |-> << >>,
          user   |-> u,
          out    |-> ApplyStores(GG, stores),
          aqquad |-> << >>,
          stores |-> stores,
          vecops |-> << Op("DMCreateLocalVector", VecB),
                        Op("DMDAVecGetArray", VecB),
                        Op("DMDAVecRestoreArray", VecB),
                        Op("VecDestroy", VecB) >> ]

---------------------------------------------------------------------------
(* The call-backs under the time stepper, the grid split among processes *)

\* the largest number of grid nodes that carry ice in an iterate
MaxIceNodes == 2

\* the i-th node that may carry ice, and the thickness there; an iterate of
\* the time stepper may be negative
IceNode(i) == << i % GridM, ((i \div GridM) + i) % GridM >>

IceThickness(i) == IF i % 2 = 1 THEN 8 ELSE -8

ThicknessFields ==
    { [n \in Owned(WholeGrid) |->
         IF \E i \in 1 .. m : IceNode(i) = n
         THEN IceThickness(CHOOSE i \in 1 .. m : IceNode(i) = n)
         ELSE 0] : m \in 1 .. MaxIceNodes }

HdotField == [n \in Owned(WholeGrid) |-> n[1] + 2 * n[2] - 3]

\* the surface elevations b + H of the grid, and a mass balance on them
SurfaceElevations == -16 .. 16

FluxContexts ==
    { [ secpera |-> secpera, L |-> L, n_ice |-> 3, Gamma |-> 1, D0 |-> 1,
        eps |-> e, delta |-> 1, lambda |-> la, verif |-> v,
        cmb |-> [s \in SurfaceElevations |-> IF s > 0 THEN 1 ELSE -1] ] :
      e \in {0, 1}, la \in {0, 4}, v \in BOOLEAN }

\* the ranges <<start, length>> of a grid direction of m nodes cut at c
\* (c = 0: not cut)
Ranges(c, m) == IF c = 0 THEN { <<0, m>> } ELSE { <<0, c>>, <<c, m - c>> }

\* the process patches of the grid cut at cs = <<cx, cy>>
Patches(cs) ==
    { Info(GridM, GridM, rx[1], ry[1], rx[2], ry[2]) :
        rx \in Ranges(cs[1], GridM), ry \in Ranges(cs[2], GridM) }

CutChoices == {0, GridM - 1}

FluxInit ==
    /\ ctx \in FluxContexts
    /\ cuts \in CutChoices \X CutChoices
    /\ tsH \in ThicknessFields
    /\ tsHdot = HdotField
    /\ tsF = ZeroField
    /\ tsG = ZeroField
    /\ recI = [p \in Patches(cuts) |-> << >>]
    /\ recR = [p \in Patches(cuts) |-> << >>]
    \* no main program runs, no single evaluation is made
    /\ prog = "callbacks" /\ opts = << >> /\ user = << >> /\ pc = 0
    /\ ret = << >> /\ cmb = << >> /\ vecH = << >> /\ uexact = << >>
    /\ appRet = << >> /\ failed = 0 /\ ranAfterFail = {} /\ executed = {}
    /\ branches = {}
    /\ fin = << >> /\ fout = << >>

\* what a patch remembers of its calls: the first and the latest
Remember(rec, r) == IF rec = << >> THEN << r >> ELSE << rec[1], r >>

\* the global vector after the process of patch p has stored its array
Scatter(g, p, a) == [n \in DOMAIN g |-> IF n \in Owned(p) THEN a[n] ELSE g[n]]

\* the time stepper calls FormIFunctionLocal on the process of patch p: the
\* thickness comes with its ghost values, FF holds what the vector held
CallFormIFunctionLocal ==
    \E p \in Patches(cuts) :
        /\ Len(recI[p]) <= Len(recR[p])
        /\ LET r == FormIFunctionLocal(p, 0, LocalArray(p, tsH),
                                       OwnedArray(p, tsHdot),
                                       OwnedArray(p, tsF), ctx)
           IN  /\ recI' = [recI EXCEPT ![p] = Remember(@, r)]
               /\ tsF' = Scatter(tsF, p, r.out)
        /\ UNCHANGED <<mainVars, pointVars, ctx, cuts, tsH, tsHdot, tsG, recR>>

\* the time stepper calls FormRHSFunctionLocal on the process of patch p
CallFormRHSFunctionLocal ==
    \E p \in Patches(cuts) :
        /\ Len(recR[p]) < Len(recI[p])
        /\ LET r == FormRHSFunctionLocal(p, 0, LocalArray(p, tsH),
                                         OwnedArray(p, tsG), ctx)
           IN  /\ recR' = [recR EXCEPT ![p] = Remember(@, r)]
               /\ tsG' = Scatter(tsG, p, r.out)
        /\ UNCHANGED <<mainVars, pointVars, ctx, cuts, tsH, tsHdot, tsF, recI>>

FluxNext == CallFormIFunctionLocal \/ CallFormRHSFunctionLocal

SpecFlux == FluxInit /\ [][FluxNext]_vars

---------------------------------------------------------------------------
(* Single evaluations of the point-wise formulas of the flux loop *)

\* lambda is counted in quarters up to MaxLambda, the other arguments are
\* integers up to these bounds
MaxLambda == 5

MaxH == 2

MaxDelta == 2

MaxD0 == 2

Quarters(x) == 4 * x

\* the corner thicknesses of an element, as fieldatptArray collects them
CornerValues == { <<0, 0, 0, 0>>, <<8, 0, 0, 0>>, <<0, 8, 16, 0>>,
                  <<8, 16, 24, 40>>, <<-8, 0, 8, 24>> }

PointDefaults ==
    [ fn |-> "", lambda |-> 0, c |-> 1, gb |-> Grad(0, 0), f |-> <<0, 0, 0, 0>>,
      delta |-> 0, H |-> 0, n |-> 0, eps |-> 0, D0 |-> 0 ]

\* one pass of the flux loop at point c of an element
UpwindInputs ==
    { [PointDefaults EXCEPT !.fn = "upwind", !.lambda = la, !.c = c,
                            !.gb = Grad(g[1], g[2]), !.f = f] :
        la \in 0 .. MaxLambda, c \in 1 .. 4,
        g \in (-1 .. 1) \X (-1 .. 1), f \in CornerValues }

\* one call of DCS; n > 1 by the check of SetFromOptionsAppCtx
DCSInputs ==
    { [PointDefaults EXCEPT !.fn = "DCS", !.delta = d, !.H = h, !.n = n,
                            !.eps = e, !.D0 = d0] :
        d \in 0 .. MaxDelta, h \in -MaxH .. MaxH, n \in 2 .. MaxN,
        e \in {0, 1}, d0 \in 1 .. MaxD0 }

PointInit ==
    /\ fin \in UpwindInputs \cup DCSInputs
    /\ fout = << >>
    \* no main program runs, no call-back is called
    /\ prog = "point" /\ opts = << >> /\ user = << >> /\ pc = 0
    /\ ret = << >> /\ cmb = << >> /\ vecH = << >> /\ uexact = << >>
    /\ appRet = << >> /\ failed = 0 /\ ranAfterFail = {} /\ executed = {}
    /\ branches = {}
    /\ ctx = << >> /\ cuts = << >> /\ tsH = << >> /\ tsHdot = << >>
    /\ tsF = << >> /\ tsG = << >> /\ recI = << >> /\ recR = << >>

\* lines 477-490: H and Hup (64 times) at point c, and the point of Hup
EvalUpwind ==
    /\ fin.fn = "upwind" /\ fout = << >>
    /\ LET u   == [lambda |-> fin.lambda]
           xi  == locx[fin.c]
           eta == locy[fin.c]
       IN  fout' = << [ H64   |-> fieldatpt64(xi, eta, fin.f),
                        Hup64 |-> UpwindThickness64(xi, eta, xdire[fin.c],
                                                    fin.gb, fin.f, u),
                        up    |-> upwind(u),
                        p     |-> UpwindPoint(xi, eta, xdire[fin.c], fin.gb, u) ] >>
    /\ UNCHANGED <<mainVars, fluxVars, fin>>

\* line 344: myD = DCS(delta,H,n,user->eps,user->D0)
EvalDCS ==
    /\ fin.fn = "DCS" /\ fout = << >>
    /\ fout' = << [ D |-> DCS(fin.delta, fin.H, fin.n, fin.eps, fin.D0) ] >>
    /\ UNCHANGED <<mainVars, fluxVars, fin>>

PointNext == EvalUpwind \/ EvalDCS

SpecPoint == PointInit /\ [][PointNext]_vars

---------------------------------------------------------------------------
(* Properties of the call-backs *)

\* the results of the calls of FormIFunctionLocal made so far, by patch
ICalls ==
    UNION { { <<p, recI[p][i]>> : i \in DOMAIN recI[p] } : p \in Patches(cuts) }

\* the quadrature points of the diagram, s = 0..7 (here 1..8): the side of
\* the control volume it lies on, and on which half of the side (1: the
\* half with the larger coordinate)
DiagramSide == <<"right", "top", "top", "left", "left", "bottom", "bottom", "right">>

DiagramHalf == <<1, 1, -1, 1, -1, -1, 1, -1>>

\* the midpoint of a half-side relative to the node, in eighths of an element
\* (the control volume reaches half an element to each side), whether the
\* outward normal is along x, and the sign of the outward normal
HalfSide(side, half) ==
    IF side = "right"  THEN [px |-> 4,  py |-> 2 * half, xdir |-> TRUE,  sign |-> 1]
    ELSE IF side = "left" THEN [px |-> -4, py |-> 2 * half, xdir |-> TRUE,  sign |-> -1]
    ELSE IF side = "top"  THEN [px |-> 2 * half, py |-> 4,  xdir |-> FALSE, sign |-> 1]
    ELSE                       [px |-> 2 * half, py |-> -4, xdir |-> FALSE, sign |-> -1]

\* sign of the outward normal times the length of the half-side
OutwardWeight(hs, dx, dy) ==
    hs.sign * (IF hs.xdir THEN dy \div 2 ELSE dx \div 2)

\* the flux through a half-side of the control volume at node n, by
\* the midpoint rule: the flux component along the normal at the midpoint,
\* computed in the element the midpoint lies in
HalfSideFlux(n, hs, dx, dy, aH, ab, u) ==
    OutwardWeight(hs, dx, dy)
    * FluxAt(n[1] + (hs.px \div 8), n[2] + (hs.py \div 8),
             hs.px % 8, hs.py % 8, hs.xdir, dx, dy, aH, ab, u)

RECURSIVE SumOver(_, _)
SumOver(S, f) ==
    IF S = {} THEN 0
    ELSE LET x == CHOOSE y \in S : TRUE IN f[x] + SumOver(S \ {x}, f)

\* the outward flux integral over the boundary of the control volume at n
OutwardFluxIntegral(n, dx, dy, aH, ab, u) ==
    LET sides == {"right", "top", "left", "bottom"} \X {-1, 1}
    IN  SumOver(sides, [sh \in sides |->
                HalfSideFlux(n, HalfSide(sh[1], sh[2]), dx, dy, aH, ab, u)])

\* the bed on the periodic grid, as the flux loop is to see it
PeriodicBed(info, u) ==
    [n \in Ghosted(info) |->
        IF u.verif THEN 0
        ELSE BedElevation(Wrap(n, info)[1], Wrap(n, info)[2])]

C5_TablesFollowDiagram ==
    \A s \in 1 .. 8 :
        LET hs == HalfSide(DiagramSide[s], DiagramHalf[s])
            c  == ce[s] + 1
        IN  /\ je[s] = hs.px \div 8 /\ ke[s] = hs.py \div 8
            /\ locx[c] = hs.px % 8 /\ locy[c] = hs.py % 8
            /\ xdire[c] = hs.xdir
            /\ (ce[s] \in {0, 2}) = (DiagramSide[s] \in {"right", "left"})
            /\ (ce[s] \in {1, 3}) = (DiagramSide[s] \in {"top", "bottom"})
            /\ \A d \in {2, 4} : coeff(d, 2 * d)[s] = OutwardWeight(hs, d, 2 * d)

WholeGridResidual ==
    FormIFunctionLocal(WholeGrid, 0, LocalArray(WholeGrid, tsH), tsHdot,
                       ZeroField, ctx).out

\* the element a patch knows as e, as an element of the periodic grid
SameElement(e1, e2) == Wrap(e1, WholeGrid) = Wrap(e2, WholeGrid)

\* C8: however the periodic grid is cut into process patches, the FF entries
\* of the patches whose process has run FormIFunctionLocal equal those of
\* one call over the whole grid as a single patch, whatever the other
\* processes have done so far; and the fluxes of an element that two patches
\* share are the same on both
C8_DecompositionIndependent ==
    prog = "callbacks" =>
        /\ LET whole == WholeGridResidual
           IN  \A p \in Patches(cuts) :
                  recI[p] # << >> => \A n \in Owned(p) : tsF[n] = whole[n]
        /\ \A p, q \in Patches(cuts) :
              (p # q /\ recI[p] # << >> /\ recI[q] # << >>) =>
                 \A e1 \in Elements(p), e2 \in Elements(q) :
                    SameElement(e1, e2) =>
                       \A c \in 1 .. 4 :
                          recI[p][1].aqquad[c][e1] = recI[q][1].aqquad[c][e2]

\* on a grid cut in both directions two processes have run the call-back,
\* the others not yet, and the residual there is not that of the time
\* derivative alone
C8_Witness ==
    /\ prog = "callbacks" /\ cuts = <<GridM - 1, GridM - 1>>
    /\ Cardinality({p \in Patches(cuts) : recI[p] # << >>}) = 2
    /\ ~ ctx.verif
    /\ \E p \in Patches(cuts) : \E n \in Owned(p) :
          /\ recI[p] # << >>
          /\ tsF[n] # tsHdot[n] * (ctx.L \div GridM) * (ctx.L \div GridM)

\* the positions of the toolkit calls on vector v in ops, in order
OpsOn(ops, v) == SelectSeq(ops, LAMBDA o : o.vec = v)

\* vector v is created first and once, every DMDAVecGetArray on it is
\* followed by its DMDAVecRestoreArray before the next one, and its one
\* VecDestroy is the last call on it
VecReleased(ops, v) ==
    LET on == OpsOn(ops, v)
        acc == SelectSeq(on, LAMBDA o : o.op \in {"DMDAVecGetArray",
                                                  "DMDAVecRestoreArray"})
    IN  /\ Len(on) >= 2
        /\ on[1].op = "DMCreateLocalVector"
        /\ on[Len(on)].op = "VecDestroy"
        /\ \A i \in 2 .. Len(on) - 1 :
              on[i].op \notin {"DMCreateLocalVector", "VecDestroy"}
        /\ Len(acc) % 2 = 0
        /\ \A i \in 1 .. Len(acc) :
              acc[i].op = IF i % 2 = 1 THEN "DMDAVecGetArray"
                          ELSE "DMDAVecRestoreArray"

\* the stores of a call on patch p: every owned node is assigned once, its
\* other stores add to that value afterwards, and no other entry is stored to
AssignedOncePerOwnedNode(stores, p) ==
    /\ \A i \in DOMAIN stores : stores[i].node \in Owned(p)
    /\ \A n \in Owned(p) :
          LET at == SelectSeq(stores, LAMBDA st : st.node = n)
          IN  /\ Len(at) >= 1
              /\ at[1].op = "="
              /\ \A i \in 2 .. Len(at) : at[i].op = "+="

\* the vectors a call creates
VecsOf(ops) == { ops[i].vec : i \in DOMAIN ops }

\* what C9 asks of the result r of a call on patch p that was to create the
\* vectors vecs
StatelessCall(r, p, vecs) ==
    /\ r.ret = 0
    /\ r.user = ctx
    /\ r.aH = LocalArray(p, tsH)
    /\ r.aHdot \in { << >>, OwnedArray(p, tsHdot) }
    /\ AssignedOncePerOwnedNode(r.stores, p)
    /\ VecsOf(r.vecops) = vecs
    /\ \A v \in vecs : VecReleased(r.vecops, v)

---------------------------------------------------------------------------
(* Properties of the point-wise formulas *)

Evaluated(fn) == fin.fn = fn /\ fout # << >>

\* C6: lambda = 0 gives Hup = H at every flux point; lambda = 1 puts the
\* point of Hup on the element edge (coordinate 0 or 1) along the flux
\* direction and leaves the other coordinate; for lambda > 0 the coordinate
\* along the flux direction is (1-lambda)/2 when the bed gradient component
\* in that direction is <= 0, the side the velocity -delta*grad b comes
\* from, and (1+lambda)/2 when it is > 0; for 0 <= lambda <= 1 the point is
\* inside the element
C6_UpwindPoint ==
    Evaluated("upwind") =>
        LET r    == fout[1]
            xdir == xdire[fin.c]
            xi   == locx[fin.c]
            eta  == locy[fin.c]
            g    == IF xdir THEN fin.gb.x ELSE fin.gb.y
            along == IF xdir THEN r.p[1] ELSE r.p[2]
            other == IF xdir THEN r.p[2] ELSE r.p[1]
        IN  /\ fin.lambda = 0 => (~ r.up /\ r.Hup64 = r.H64)
            /\ fin.lambda > 0 =>
                  /\ r.up
                  /\ r.Hup64 = fieldatpt64(r.p[1], r.p[2], fin.f)
                  /\ other = (IF xdir THEN eta ELSE xi)
                  /\ g <= 0 => 2 * along = 8 - 2 * fin.lambda
                  /\ g > 0 => 2 * along = 8 + 2 * fin.lambda
            /\ fin.lambda = Quarters(1) =>
                  /\ g <= 0 => along = 0
                  /\ g > 0 => along = 8
            /\ (0 <= fin.lambda /\ fin.lambda <= Quarters(1)) =>
                  (r.p[1] \in 0 .. 8 /\ r.p[2] \in 0 .. 8)

\* full upwinding against a bed that rises along the flux direction changed
\* the thickness used
C6_Witness ==
    /\ Evaluated("upwind") /\ fin.lambda = Quarters(1)
    /\ (IF xdire[fin.c] THEN fin.gb.x ELSE fin.gb.y) > 0
    /\ fout[1].Hup64 # fout[1].H64

\* the absolute value of H to the power e, by repeated multiplication
RECURSIVE AbsPower(_, _)
AbsPower(H, e) ==
    IF e = 0 THEN 1 ELSE (IF H < 0 THEN -H ELSE H) * AbsPower(H, e - 1)

====
